---- MODULE Spec2Model ----
(***************************************************************************)
(* State-machine model of the two pages of kc-voice-assistant:             *)
(*   - the chat page      (src/app/page.tsx, component Home)               *)
(*   - the recording page (src/unnamed/part_000, component RecordPage)     *)
(* Each page is one React component.  Its state (useState / useRef cells,  *)
(* the suspended async calls, the audio element, the MediaRecorders) is    *)
(* held in one record variable, chat and rec.  Every event handler is an   *)
(* operator from the component state to the component state, run to its    *)
(* next await; every continuation after an await is a separate operator.   *)
(* React flushes the state updates of a handler before the next event is   *)
(* dispatched, so each handler is one atomic step.                         *)
(***************************************************************************)
EXTENDS Integers, Sequences, FiniteSets, TLC

VARIABLES chat, rec, ev, log

vars == <<chat, rec, ev, log>>

(***************************************************************************)
(* Bounds of the model.                                                    *)
(***************************************************************************)
MaxRequests == 2
MaxTextLen == 1

(***************************************************************************)
(* Values.                                                                 *)
(***************************************************************************)
Modes == {"syllabus", "courses"}

Chars == {" ", "a"}

Texts == UNION {[1..n -> Chars] : n \in 0..MaxTextLen}

\* null / undefined / '' for blobs and object URLs, which are numbered from 1
Null == 0

\* an optional value is the empty set or a singleton
Absent == {}

Some(x) == {x}

(***************************************************************************)
(* String.prototype.trim on a sequence of characters.                      *)
(***************************************************************************)
RECURSIVE TrimStart(_)
TrimStart(t) ==
  IF t # <<>> /\ Head(t) = " " THEN TrimStart(Tail(t)) ELSE t

RECURSIVE TrimEnd(_)
TrimEnd(t) ==
  IF t # <<>> /\ t[Len(t)] = " " THEN TrimEnd(SubSeq(t, 1, Len(t) - 1)) ELSE t

Trim(t) == TrimEnd(TrimStart(t))

\* JavaScript truthiness of a string: the empty string is falsy
TruthyText(t) == t # <<>>


Only(S) == CHOOSE x \in S : TRUE

(***************************************************************************)
(* CHAT PAGE: component Home.                                              *)
(*                                                                         *)
(* Fields of chat:                                                         *)
(*   mode, textInput, syllabusConversation, coursesConversation,           *)
(*   isProcessing, isPlaying        the useState cells                     *)
(*   isRecording, audioBlob         the state exposed by useVoiceRecorder  *)
(*   calls                          the processConversation calls that are *)
(*                                  suspended at  await axios.post : the   *)
(*                                  request sent and the mode captured by  *)
(*                                  the closure of the render that made it *)
(*   nextId                         the number of the next request         *)
(*   audioSrc, audioPlaying, playPromise                                   *)
(*                                  the single audio element: its src,     *)
(*                                  whether it is playing, and the play()  *)
(*                                  promise not yet settled ("none",       *)
(*                                  "auto" or "manual" by who called it)   *)
(*   alerts                         the alert() dialogs raised by the      *)
(*                                  handler that ran last                  *)
(* A transcript entry is [query, audioUrl]; the server's answer to request *)
(* n carries the query n, and URL.createObjectURL for it yields URL n.     *)
(***************************************************************************)
ChatInit ==
  [mode |-> "syllabus",
   textInput |-> <<>>,
   syllabusConversation |-> <<>>,
   coursesConversation |-> <<>>,
   isProcessing |-> FALSE,
   isPlaying |-> FALSE,
   isRecording |-> FALSE,
   audioBlob |-> Null,
   calls |-> {},
   nextId |-> 1,
   audioSrc |-> Null,
   audioPlaying |-> FALSE,
   playPromise |-> "none",
   alerts |-> 0]

getCurrentConversation(s) ==
  IF s.mode = "syllabus" THEN s.syllabusConversation ELSE s.coursesConversation

\* the transcript of mode m
Conversation(s, m) ==
  IF m = "syllabus" THEN s.syllabusConversation ELSE s.coursesConversation

setCurrentConversationStale(s, m, entry) ==
  IF s.mode = "syllabus"
    THEN [s EXCEPT !.syllabusConversation = Append(@, entry)]
    ELSE [s EXCEPT !.coursesConversation = Append(@, entry)]

\* setCurrentConversation(prev => [...prev, entry]) in a closure whose mode is m
setCurrentConversation(s, m, entry) ==
  IF m = "syllabus"
    THEN [s EXCEPT !.syllabusConversation = Append(@, entry)]
    ELSE [s EXCEPT !.coursesConversation = Append(@, entry)]

setModeClearing(s, m) ==
  IF m = "syllabus"
    THEN [s EXCEPT !.mode = m, !.syllabusConversation = <<>>]
    ELSE [s EXCEPT !.mode = m, !.coursesConversation = <<>>]

setMode(s, m) == [s EXCEPT !.mode = m]

setTextInput(s, t) == [s EXCEPT !.textInput = t]

(***************************************************************************)
(* useVoiceRecorder: the hook's source is not among the files; its three   *)
(* operations follow the specification of the Recorder.                    *)
(***************************************************************************)
\* microphone granted: capture starts, a previous unsent blob is discarded
hookStartRecording(s) == [s EXCEPT !.isRecording = TRUE, !.audioBlob = Null]

\* microphone denied: a user-facing alert, recording not started
hookStartDenied(s) == [s EXCEPT !.alerts = @ + 1]

\* stop: the buffered chunks are assembled into one blob
hookStopRecording(s) == [s EXCEPT !.isRecording = FALSE, !.audioBlob = 1]

\* reset: the current blob is discarded
resetRecording(s) == [s EXCEPT !.audioBlob = Null]

(***************************************************************************)
(* The audio element.                                                      *)
(***************************************************************************)
\* audioRef.current.src = url : the element's load algorithm stops what is
\* playing and rejects the play() promise still pending; a rejected manual
\* promise runs the catch of playAudio, which alerts
audioSetSrc(s, url) ==
  [s EXCEPT !.audioSrc = url,
            !.audioPlaying = FALSE,
            !.playPromise = "none",
            !.alerts = @ + (IF s.playPromise = "manual" THEN 1 ELSE 0)]

\* audioRef.current.play() called by who ("auto" or "manual")
audioPlay(s, who) == [s EXCEPT !.playPromise = who]

(***************************************************************************)
(* processConversation, up to  await axios.post .                          *)
(***************************************************************************)
FormData(s, input) ==
  [mode |-> s.mode,
   text |-> IF input.text # Absent /\ TruthyText(Only(input.text))
              THEN input.text ELSE Absent,
   audio |-> IF input.audio # Absent /\ Only(input.audio) # Null
               THEN input.audio ELSE Absent]

processConversation(s, input) ==
  [s EXCEPT !.isProcessing = TRUE,
            !.calls = @ \cup {[id |-> s.nextId,
                               form |-> FormData(s, input),
                               mode |-> s.mode]},
            !.nextId = @ + 1]

(***************************************************************************)
(* processConversation, after the request succeeded.  response.audio is    *)
(* TRUE when the answer carries base64 audio.                              *)
(***************************************************************************)
autoPlayStart(s, audioUrl) ==
  IF audioUrl # Null
    THEN audioPlay(audioSetSrc(s, audioUrl), "auto")
    ELSE s

finallyBlock(s, call) ==
  [s EXCEPT !.isProcessing = FALSE, !.calls = @ \ {call}]

onFulfilled(s, call, response) ==
  LET audioUrl == IF response.audio THEN call.id ELSE Null
      newEntry == [query |-> response.query, audioUrl |-> audioUrl]
      s1 == setCurrentConversation(s, call.mode, newEntry)
      s2 == autoPlayStart(s1, audioUrl)
      s3 == resetRecording(setTextInput(s2, <<>>))
  IN finallyBlock(s3, call)

(***************************************************************************)
(* processConversation, after the request failed: catch, then finally.     *)
(***************************************************************************)
catchBlockClearing(s) == [s EXCEPT !.alerts = @ + 1, !.textInput = <<>>]

catchBlock(s) == [s EXCEPT !.alerts = @ + 1]

onRejected(s, call) == finallyBlock(catchBlock(s), call)

(***************************************************************************)
(* The submit handlers.                                                    *)
(***************************************************************************)
handleVoiceSubmitWithText(s) ==
  IF s.audioBlob # Null
    THEN processConversation(s, [text |-> Some(s.textInput),
                                 audio |-> Some(s.audioBlob)])
    ELSE s

handleVoiceSubmit(s) ==
  IF s.audioBlob # Null
    THEN processConversation(s, [text |-> Absent, audio |-> Some(s.audioBlob)])
    ELSE s

handleTextSubmitNoTrim(s) ==
  IF TruthyText(s.textInput)
    THEN processConversation(s, [text |-> Some(s.textInput), audio |-> Absent])
    ELSE s

handleTextSubmit(s) ==
  IF TruthyText(Trim(s.textInput))
    THEN processConversation(s, [text |-> Some(s.textInput), audio |-> Absent])
    ELSE s

\* the key is Enter without Shift
handleKeyPress(s) ==
  IF TruthyText(Trim(s.textInput)) /\ ~s.isProcessing
    THEN handleTextSubmit(s)
    ELSE s

(***************************************************************************)
(* Playback.                                                               *)
(***************************************************************************)
playAudio(s, audioUrl) == audioPlay(audioSetSrc(s, audioUrl), "manual")

\* await audioRef.current.play() fulfilled in the auto-play closure
autoPlayFulfilled(s) ==
  [s EXCEPT !.audioPlaying = TRUE, !.playPromise = "none", !.isPlaying = TRUE]

autoPlayRejectedAlerting(s) ==
  [s EXCEPT !.playPromise = "none", !.alerts = @ + 1]

\* ... rejected: console.log only
autoPlayRejected(s) == [s EXCEPT !.playPromise = "none"]

\* play().then of playAudio
playAudioFulfilled(s) ==
  [s EXCEPT !.audioPlaying = TRUE, !.playPromise = "none", !.isPlaying = TRUE]

\* play().catch of playAudio
playAudioRejected(s) == [s EXCEPT !.playPromise = "none", !.alerts = @ + 1]

\* the audio element reached the end of its source: onEnded
onEnded(s) == [s EXCEPT !.audioPlaying = FALSE, !.isPlaying = FALSE]

(***************************************************************************)
(* What the rendered controls allow.                                       *)
(***************************************************************************)
SendDisabledIgnoringProcessing(s) == ~TruthyText(Trim(s.textInput))

SendDisabled(s) == ~TruthyText(Trim(s.textInput)) \/ s.isProcessing

TextareaDisabled(s) == s.isProcessing

MicDisabled(s) == s.isProcessing

SendVoiceRendered(s) == s.audioBlob # Null /\ ~s.isRecording

SendVoiceDisabled(s) == s.isProcessing

\* the URLs of the Play Audio buttons on screen
PlayButtons(s) ==
  {getCurrentConversation(s)[i].audioUrl : i \in 1..Len(getCurrentConversation(s))}
    \ {Null}


(***************************************************************************)
(* Steps of the chat page.  ev names the handler that ran last.  log is    *)
(* the history of the requests: log[n] holds the mode selected when        *)
(* request n was submitted and what became of the request; until it        *)
(* completes, the text box, the recorded blob and the transcripts as they  *)
(* were at the submission; and, up to the state in which it completes, the *)
(* handler that submitted it.                                              *)
(***************************************************************************)
\* the component state a handler starts from
ChatNow == [chat EXCEPT !.alerts = 0]

LogAfter(e, s) ==
  [i \in 1..(s.nextId - 1) |->
     IF \E c \in s.calls \ chat.calls : c.id = i
       THEN [mode |-> chat.mode,
             by |-> e,
             textInput |-> chat.textInput,
             audioBlob |-> chat.audioBlob,
             syllabus |-> chat.syllabusConversation,
             courses |-> chat.coursesConversation,
             status |-> "pending"]
       ELSE IF \E c \in chat.calls \ s.calls : c.id = i
         THEN [mode |-> log[i].mode,
               by |-> log[i].by,
               textInput |-> <<>>,
               audioBlob |-> Null,
               syllabus |-> <<>>,
               courses |-> <<>>,
               status |-> IF e = "failed" THEN "failed" ELSE "ok"]
         ELSE IF log[i].status = "pending"
           THEN log[i]
           ELSE [log[i] EXCEPT !.by = ""]]

ChatStep(e, s) ==
  /\ chat' = s
  /\ ev' = e
  /\ log' = LogAfter(e, s)
  /\ UNCHANGED rec

MayRequest == chat.nextId <= MaxRequests

ClickMode ==
  \E m \in Modes : ChatStep("setMode", setMode(ChatNow, m))

TypeText ==
  /\ ~TextareaDisabled(chat)
  /\ \E t \in Texts \ {chat.textInput} : ChatStep("type", setTextInput(ChatNow, t))

ClickSend ==
  /\ ~SendDisabled(chat)
  /\ MayRequest
  /\ ChatStep("send", handleTextSubmit(ChatNow))

PressEnter ==
  /\ ~TextareaDisabled(chat)
  /\ MayRequest
  /\ ChatStep("enter", handleKeyPress(ChatNow))

ClickSendVoice ==
  /\ SendVoiceRendered(chat)
  /\ ~SendVoiceDisabled(chat)
  /\ MayRequest
  /\ ChatStep("sendVoice", handleVoiceSubmit(ChatNow))

ClickMicStart ==
  /\ ~MicDisabled(chat)
  /\ ~chat.isRecording
  /\ ChatStep("micStart", hookStartRecording(ChatNow))

ClickMicDenied ==
  /\ ~MicDisabled(chat)
  /\ ~chat.isRecording
  /\ ChatStep("micDenied", hookStartDenied(ChatNow))

ClickMicStop ==
  /\ ~MicDisabled(chat)
  /\ chat.isRecording
  /\ ChatStep("micStop", hookStopRecording(ChatNow))

RequestSucceeds ==
  \E call \in chat.calls, a \in BOOLEAN :
    ChatStep(IF a THEN "succeededWithAudio" ELSE "succeeded",
             onFulfilled(ChatNow, call, [query |-> call.id, audio |-> a]))

RequestFails ==
  \E call \in chat.calls : ChatStep("failed", onRejected(ChatNow, call))

AutoPlayFulfilled ==
  /\ chat.playPromise = "auto"
  /\ ChatStep("autoPlayFulfilled", autoPlayFulfilled(ChatNow))

AutoPlayRejected ==
  /\ chat.playPromise = "auto"
  /\ ChatStep("autoPlayRejected", autoPlayRejected(ChatNow))

ClickPlayAudio ==
  \E u \in PlayButtons(chat) : ChatStep("playAudio", playAudio(ChatNow, u))

PlayAudioFulfilled ==
  /\ chat.playPromise = "manual"
  /\ ChatStep("playAudioFulfilled", playAudioFulfilled(ChatNow))

PlayAudioRejected ==
  /\ chat.playPromise = "manual"
  /\ ChatStep("playAudioRejected", playAudioRejected(ChatNow))

AudioEnded ==
  /\ chat.audioPlaying
  /\ ChatStep("ended", onEnded(ChatNow))

ChatNext ==
  \/ ClickMode
  \/ TypeText
  \/ ClickSend
  \/ PressEnter
  \/ ClickSendVoice
  \/ ClickMicStart
  \/ ClickMicDenied
  \/ ClickMicStop
  \/ RequestSucceeds
  \/ RequestFails
  \/ AutoPlayFulfilled
  \/ AutoPlayRejected
  \/ ClickPlayAudio
  \/ PlayAudioFulfilled
  \/ PlayAudioRejected
  \/ AudioEnded

(***************************************************************************)
(* RECORDING PAGE: component RecordPage.                                   *)
(*                                                                         *)
(* Fields of rec:                                                          *)
(*   isRecording, audioURL, recordingTime   the useState cells; audioURL   *)
(*                      is Absent for '' and otherwise holds the blob the  *)
(*                      object URL stands for, [by, chunks]                *)
(*   mediaRecorderRef, chunksRef, timerRef  the useRef cells (Null or the  *)
(*                      number of a recorder / an interval timer)          *)
(*   pending            startRecording calls suspended at getUserMedia     *)
(*   recorders          the MediaRecorders made so far, numbered from 1:   *)
(*                      [state, stopGen], state "recording", "stopping"    *)
(*                      (stop() called, its stop event not yet fired) or   *)
(*                      "inactive"                                         *)
(*   streams            the microphone streams whose tracks are live;      *)
(*                      recorder n records stream n                        *)
(*   timers             the interval timers that are running               *)
(*   download           the blob saved by the last download, if any        *)
(*   alerts             the alert() dialogs raised by the step that ran    *)
(*                      last                                               *)
(* A chunk is [by, gen]: the recorder that captured it and the number of   *)
(* recordings that had been started when it was captured.                  *)
(***************************************************************************)
MaxStarts == 3
MaxChunks == 2
MaxTime == 2

RecInit ==
  [isRecording |-> FALSE,
   audioURL |-> Absent,
   recordingTime |-> 0,
   mediaRecorderRef |-> Null,
   chunksRef |-> <<>>,
   timerRef |-> Null,
   pending |-> 0,
   recorders |-> <<>>,
   streams |-> {},
   timers |-> {},
   download |-> Absent,
   alerts |-> 0]

\* the number of recordings started so far
Started(s) == Len(s.recorders)

\* startRecording up to  await getUserMedia
startRecording(s) == [s EXCEPT !.pending = @ + 1]

\* startRecording after getUserMedia resolved with a stream
startGranted(s) ==
  LET n == Started(s) + 1
  IN [s EXCEPT !.pending = @ - 1,
               !.recorders = Append(@, [state |-> "recording", stopGen |-> 0]),
               !.streams = @ \cup {n},
               !.mediaRecorderRef = n,
               !.chunksRef = <<>>,
               !.isRecording = TRUE,
               !.timerRef = n,
               !.timers = @ \cup {n}]

\* startRecording after getUserMedia rejected: the catch block
startDeniedRecording(s) ==
  [s EXCEPT !.pending = @ - 1, !.alerts = @ + 1, !.isRecording = TRUE]

startDenied(s) == [s EXCEPT !.pending = @ - 1, !.alerts = @ + 1]

\* mediaRecorder.ondataavailable for data of the given size captured in
\* generation gen
ondataavailable(s, n, size, gen) ==
  IF size > 0
    THEN [s EXCEPT !.chunksRef = Append(@, [by |-> n, gen |-> gen])]
    ELSE s

\* mediaRecorder.onstop of recorder n, whose closure holds stream n
onstop(s, n) ==
  [s EXCEPT !.audioURL = Some([by |-> n, chunks |-> s.chunksRef]),
            !.streams = @ \ {n}]

\* MediaRecorder.stop(): the recorder stops gathering; its last
\* dataavailable and its stop event are fired later, from a queued task
recorderStop(s, n) ==
  [s EXCEPT !.recorders[n] = [state |-> "stopping", stopGen |-> Started(s)]]

stopRecording(s) ==
  IF s.mediaRecorderRef # Null /\ s.isRecording
    THEN LET s1 == [recorderStop(s, s.mediaRecorderRef) EXCEPT !.isRecording = FALSE]
         IN IF s1.timerRef # Null
              THEN [s1 EXCEPT !.timers = @ \ {s1.timerRef}, !.timerRef = Null]
              ELSE s1
    ELSE s

\* the queued task of stop(): the last dataavailable, then the stop event
recorderStopped(s, n, size) ==
  LET s1 == ondataavailable(s, n, size, s.recorders[n].stopGen)
  IN onstop([s1 EXCEPT !.recorders[n].state = "inactive"], n)

\* the interval callback
timerTick(s) == [s EXCEPT !.recordingTime = @ + 1]

downloadRecording(s) ==
  IF s.audioURL # Absent THEN [s EXCEPT !.download = s.audioURL] ELSE s

\* what the page renders
StartButtonShown(s) == ~s.isRecording

StopButtonShown(s) == s.isRecording

PreviewShown(s) == s.audioURL # Absent

(***************************************************************************)
(* Steps of the recording page.                                            *)
(***************************************************************************)
RecNow == [rec EXCEPT !.alerts = 0]

RecStep(e, s) ==
  /\ rec' = s
  /\ ev' = e
  /\ UNCHANGED <<chat, log>>

ClickStart ==
  /\ StartButtonShown(rec)
  /\ Started(rec) + rec.pending < MaxStarts
  /\ RecStep("startRecording", startRecording(RecNow))

MicrophoneGranted ==
  /\ rec.pending > 0
  /\ RecStep("startGranted", startGranted(RecNow))

MicrophoneDenied ==
  /\ rec.pending > 0
  /\ RecStep("startDenied", startDenied(RecNow))

DataAvailable ==
  /\ Len(rec.chunksRef) < MaxChunks
  /\ \E n \in 1..Started(rec), size \in 0..1 :
       /\ rec.recorders[n].state = "recording"
       /\ RecStep("dataavailable", ondataavailable(RecNow, n, size, Started(rec)))

ClickStop ==
  /\ StopButtonShown(rec)
  /\ RecStep("stopRecording", stopRecording(RecNow))

RecorderStopped ==
  \E n \in 1..Started(rec), size \in 0..1 :
    /\ rec.recorders[n].state = "stopping"
    /\ size > 0 => Len(rec.chunksRef) < MaxChunks
    /\ RecStep("stopped", recorderStopped(RecNow, n, size))

TimerTick ==
  /\ rec.timers # {}
  /\ rec.recordingTime < MaxTime
  /\ RecStep("tick", timerTick(RecNow))

ClickDownload ==
  /\ PreviewShown(rec)
  /\ RecStep("download", downloadRecording(RecNow))

RecNext ==
  \/ MicrophoneGranted
  \/ MicrophoneDenied
  \/ DataAvailable
  \/ ClickStop
  \/ RecorderStopped
  \/ TimerTick
  \/ ClickDownload
  \/ ClickStart

Init ==
  /\ chat = ChatInit
  /\ rec = RecInit
  /\ ev = "mount"
  /\ log = <<>>

ChatSpec == Init /\ [][ChatNext]_vars

RecordSpec == Init /\ [][RecNext]_vars


(***************************************************************************)
(* PROPERTIES OF THE CHAT PAGE, checked under ChatSpec.                    *)
(***************************************************************************)
Blank(t) == ~TruthyText(Trim(t))

OtherMode(m) == IF m = "syllabus" THEN "courses" ELSE "syllabus"

\* the calls that the step completes
Completed == chat.calls \ chat'.calls

\* C1: at most one conversation request is in flight at any time, and
\* isProcessing is set exactly while one is: from the submission to the
\* success or failure of its request no user action starts a second one.
C1_OneInFlight ==
  /\ Cardinality(chat.calls) <= 1
  /\ chat.isProcessing <=> chat.calls # {}

\* a request is pending, text is typed and a recording is ready to send, and
\* the user has just acted (switched mode) on the page
C1_Witness ==
  /\ Cardinality(chat.calls) = 1
  /\ ~Blank(chat.textInput)
  /\ chat.audioBlob # Null
  /\ ~chat.isRecording
  /\ ev = "setMode"

\* C2: when the request of a text submission succeeds, exactly one entry
\* (the answer to that request) is appended at the end of the transcript of
\* the mode that was selected at the submission and sent in the request; the
\* earlier entries of that transcript are kept in order, and the other
\* transcript is unchanged, also when the mode was switched meanwhile.
C2_AppendOnSuccess ==
  [][\A call \in Completed :
       (ev' \in {"succeeded", "succeededWithAudio"} /\ call.form.text # Absent) =>
         LET m == call.form.mode
             before == Conversation(chat, m)
             after == Conversation(chat', m)
         IN /\ m = log[call.id].mode
            /\ Len(after) = Len(before) + 1
            /\ SubSeq(after, 1, Len(before)) = before
            /\ after[Len(after)].query = call.id
            /\ Conversation(chat', OtherMode(m)) = Conversation(chat, OtherMode(m))]_vars

\* a text submission has just succeeded after the user switched mode while
\* its request was pending
C2_Witness ==
  /\ ev \in {"succeeded", "succeededWithAudio"}
  /\ log # <<>>
  /\ log[Len(log)].status = "ok"
  /\ log[Len(log)].by \in {"send", "enter"}
  /\ log[Len(log)].mode # chat.mode
  /\ Len(Conversation(chat, log[Len(log)].mode)) = 1

\* C3: when the request of a submission fails, both transcripts are as they
\* were before the submission, exactly one alert is raised, the typed text
\* and the recorded blob are those of the submission, isProcessing is false
\* again, and no request is sent again.
C3_FailureLeavesState ==
  [][\A call \in Completed :
       ev' = "failed" =>
         /\ chat'.syllabusConversation = log[call.id].syllabus
         /\ chat'.coursesConversation = log[call.id].courses
         /\ chat'.syllabusConversation = chat.syllabusConversation
         /\ chat'.coursesConversation = chat.coursesConversation
         /\ chat'.alerts = 1
         /\ chat'.textInput = log[call.id].textInput
         /\ chat'.audioBlob = log[call.id].audioBlob
         /\ ~chat'.isProcessing
         /\ chat'.calls = {}
         /\ chat'.nextId = chat.nextId]_vars

\* a request has just failed with text typed, a recording made and an
\* earlier entry in a transcript
C3_Witness ==
  /\ ev = "failed"
  /\ ~Blank(chat.textInput)
  /\ chat.audioBlob # Null
  /\ Len(chat.syllabusConversation) + Len(chat.coursesConversation) > 0
  /\ chat.alerts = 1

\* the requests submitted in mode m that succeeded, in order
OkRequests(m) ==
  LET Ok(i) == log[i].mode = m /\ log[i].status = "ok"
  IN SelectSeq([i \in 1..Len(log) |-> i], Ok)

Queries(conversation) == [i \in 1..Len(conversation) |-> conversation[i].query]

\* C4: switching the mode changes the selected mode and nothing else, and
\* in every state each transcript holds exactly the answers to the successful
\* submissions made in its own mode, in order.
C4_ModesIndependent ==
  /\ [](\A m \in Modes : Queries(Conversation(chat, m)) = OkRequests(m))
  /\ [][ev' = "setMode" => \E m \in Modes : chat' = [chat EXCEPT !.mode = m, !.alerts = 0]]_vars

\* one syllabus submission, a switch, one courses submission, a switch back:
\* the syllabus transcript has exactly one entry
C4_Witness ==
  /\ ev = "setMode"
  /\ chat.mode = "syllabus"
  /\ Len(log) = 2
  /\ log[1].mode = "syllabus" /\ log[1].status = "ok"
  /\ log[2].mode = "courses" /\ log[2].status = "ok"
  /\ Len(chat.syllabusConversation) = 1
  /\ Len(chat.coursesConversation) = 1

\* C5: with an empty or whitespace-only text box handleTextSubmit (and
\* handleKeyPress on Enter) changes nothing: no request, isProcessing not
\* set, no transcript and no input changed; and so does handleVoiceSubmit
\* when there is no recorded blob.
C5_EmptySubmitIsNoOp ==
  /\ Blank(chat.textInput) =>
       /\ handleTextSubmit(chat) = chat
       /\ handleKeyPress(chat) = chat
  /\ chat.audioBlob = Null => handleVoiceSubmit(chat) = chat

\* Enter has just been pressed in a text box holding only a space, with no
\* recording made: nothing was sent
C5_Witness ==
  /\ ev = "enter"
  /\ chat.textInput = <<" ">>
  /\ chat.audioBlob = Null
  /\ chat.calls = {}
  /\ ~chat.isProcessing

\* C6: every request sent carries exactly one of a text field and an audio
\* file part.
C6_ExactlyOnePayload ==
  \A call \in chat.calls :
    (call.form.text # Absent) # (call.form.audio # Absent)

\* the request of a voice submission made while text is typed is in flight,
\* after an earlier request failed
C6_Witness ==
  /\ ev = "sendVoice"
  /\ \E call \in chat.calls : call.form.audio # Absent /\ call.form.text = Absent
  /\ ~Blank(chat.textInput)
  /\ Len(log) = 2
  /\ log[1].status = "failed"


\* the entries of both transcripts
Entries(s) ==
  {s.syllabusConversation[i] : i \in 1..Len(s.syllabusConversation)}
    \cup {s.coursesConversation[i] : i \in 1..Len(s.coursesConversation)}

\* C8: when an answer with audio arrives, its entry is appended with the
\* decoded audio URL, the inputs are cleared, isProcessing is false again and
\* play() is attempted on that URL without touching isPlaying; when the
\* browser then rejects that play(), no alert is raised, isPlaying is not
\* changed, and the entry with its URL (hence its Play Audio control), the
\* inputs and isProcessing are left as they are.
C8_AutoplayRejectionIsSilent ==
  [][/\ ev' = "succeededWithAudio" =>
          \A call \in Completed :
            LET after == Conversation(chat', log[call.id].mode)
            IN /\ Len(after) > 0
               /\ after[Len(after)].query = call.id
               /\ after[Len(after)].audioUrl # Null
               /\ chat'.audioSrc = after[Len(after)].audioUrl
               /\ chat'.playPromise = "auto"
               /\ chat'.textInput = <<>>
               /\ chat'.audioBlob = Null
               /\ ~chat'.isProcessing
               /\ chat'.isPlaying = chat.isPlaying
     /\ ev' = "autoPlayRejected" =>
          /\ chat'.alerts = 0
          /\ chat'.isPlaying = chat.isPlaying
          /\ ~chat'.audioPlaying
          /\ \E entry \in Entries(chat') : entry.audioUrl = chat'.audioSrc
          /\ chat' = [chat EXCEPT !.playPromise = "none", !.alerts = 0]]_vars

\* the automatic play() of the answer just received has been rejected: the
\* indicator is off, the inputs are clear, nothing is pending, and the entry
\* is on screen with its Play Audio button
C8_Witness ==
  /\ ev = "autoPlayRejected"
  /\ ~chat.isPlaying
  /\ ~chat.isProcessing
  /\ chat.textInput = <<>>
  /\ chat.audioBlob = Null
  /\ chat.alerts = 0
  /\ chat.audioSrc \in PlayButtons(chat)

\* C10: isPlaying is true only while the audio element is playing (or, at
\* the latest, about to play: a play() on it is still pending).  A state
\* that violates this violates the claim as written, which does not allow
\* for the pending play() either.
C10_IndicatorTruthful ==
  chat.isPlaying => chat.audioPlaying \/ chat.playPromise # "none"

(***************************************************************************)
(* PROPERTIES OF THE RECORDING PAGE, checked under RecordSpec.             *)
(***************************************************************************)
\* C7: when getUserMedia rejects, startRecording raises one alert and
\* starts nothing: isRecording, the recorders, the streams, the timers, the
\* refs and audioURL are left as they were (isRecording stays false where
\* it was false).
C7_DeniedStartsNothing ==
  [][ev' = "startDenied" =>
       /\ rec'.alerts = 1
       /\ rec'.isRecording = rec.isRecording
       /\ rec'.recorders = rec.recorders
       /\ rec'.streams = rec.streams
       /\ rec'.timers = rec.timers
       /\ rec'.timerRef = rec.timerRef
       /\ rec'.mediaRecorderRef = rec.mediaRecorderRef
       /\ rec'.chunksRef = rec.chunksRef
       /\ rec'.recordingTime = rec.recordingTime
       /\ rec'.audioURL = rec.audioURL]_vars

\* microphone access has just been denied while an earlier recording is
\* offered for preview: nothing records and no timer runs
C7_Witness ==
  /\ ev = "startDenied"
  /\ rec.alerts = 1
  /\ rec.audioURL # Absent
  /\ ~rec.isRecording
  /\ rec.timers = {}
  /\ \A n \in 1..Started(rec) : rec.recorders[n].state = "inactive"

\* C9: only the recording started last is ever offered: the blob behind
\* audioURL (previewed and downloaded) was made by the recorder started
\* last, and it holds only chunks captured since that recorder was started.
C9_PreviousRecordingDiscarded ==
  rec.audioURL # Absent =>
    LET blob == Only(rec.audioURL)
    IN /\ blob.by = Started(rec)
       /\ \A i \in 1..Len(blob.chunks) : blob.chunks[i].gen = Started(rec)

\* the MediaRecorders that are capturing
ActiveRecorders(s) == {n \in 1..Started(s) : s.recorders[n].state = "recording"}

\* the MediaRecorders whose stop() was called and whose stop event is due
StoppingRecorders(s) == {n \in 1..Started(s) : s.recorders[n].state = "stopping"}

\* C11: at most one MediaRecorder and at most one interval timer is active
\* at any time, and once stopRecording has completed (Start is shown again
\* and no stop event is outstanding) no recorder and no timer is active and
\* every microphone stream acquired has been stopped.
C11_OneRecorderOneTimer ==
  /\ Cardinality(ActiveRecorders(rec)) <= 1
  /\ Cardinality(rec.timers) <= 1
  /\ (~rec.isRecording /\ StoppingRecorders(rec) = {}) =>
       /\ ActiveRecorders(rec) = {}
       /\ rec.timers = {}
       /\ rec.streams = {}

====
